---- MODULE Spec2Model ----
(***************************************************************************)
(* Agent lifecycle router (src/server/routers/lambda/market/agent.ts).     *)
(*                                                                         *)
(* Every procedure of agentRouter runs the agentProcedure middleware       *)
(* chain, parses its input with a zod schema, awaits one marketSDK.agents  *)
(* call and either returns the response or rethrows a TRPCError.  The      *)
(* await is a yield point: calls of independent callers interleave there.  *)
(*                                                                         *)
(* Two specifications share the router's definitions:                      *)
(*   Spec          the marketplace behind marketSDK follows the lifecycle  *)
(*                 contract (status machine, versions, current pointer);   *)
(*   SpecDispatch  the marketplace is opaque: a call resolves to any value *)
(*                 or rejects with any value.                              *)
(***************************************************************************)
EXTENDS Integers, Sequences, FiniteSets, TLC

\* Every constant set and record the actions read is a definition of its
\* own: TLC evaluates those once, before the workers start.

\* ------------------------------------------------------------ bounds
\* Most versions created in a run, over all agents.
MaxVersions == 2

\* ------------------------------------------------------------ values
\* A JavaScript value: its type tag, a printed payload, and for Error
\* objects the error's name.
Val(t, v) == [t |-> t, v |-> v, name |-> ""]
Undefined == Val("undefined", "")
Null == Val("null", "")
Str(s) == Val("string", s)
Num(n) == Val("number", n)
Bool(b) == Val("boolean", b)
Obj(o) == Val("object", o)
\* new Error(message), with the name of its class
Err(name, message) == [t |-> "Error", v |-> message, name |-> name]
\* error instanceof Error
InstanceOfError(e) == e.t = "Error"
\* the literal { success: true }
SuccessTrue == Obj("{success:true}")
True == Bool("true")
\* what ?? replaces
Nullish == {"undefined", "null"}
\* what || would replace besides
Falsy == {Bool("false"), Num("0"), Str("")}

\* The callers: two independent accounts.
Callers == {"A", "B"}
\* The agent identifiers of the marketplace.
Ids == {"a1", "a2"}

Procedures ==
    {"createAgent", "createAgentVersion", "deprecateAgent", "getAgentDetail",
     "getOwnAgents", "publishAgent", "unpublishAgent"}
\* publish / unpublish / deprecate: the procedures that coerce a nullish response
Transitions == {"deprecateAgent", "publishAgent", "unpublishAgent"}

\* ------------------------------------------------------------ inputs
\* A raw input: given says whether the caller sent an input at all; a key
\* the caller did not send is Undefined.
Keys ==
    {"identifier", "name", "homepage", "isFeatured", "status", "tokenUsage",
     "visibility", "setAsCurrent", "page", "pageSize"}
NoInput ==
    [given |-> FALSE, identifier |-> Undefined, name |-> Undefined,
     homepage |-> Undefined, isFeatured |-> Undefined, status |-> Undefined,
     tokenUsage |-> Undefined, visibility |-> Undefined,
     setAsCurrent |-> Undefined, page |-> Undefined, pageSize |-> Undefined]
EmptyObject == [NoInput EXCEPT !.given = TRUE]

\* z.string(), z.number(), z.boolean(), z.enum([...]) and .optional()
ZString(x) == x.t = "string"
ZNumber(x) == x.t = "number"
ZBoolean(x) == x.t = "boolean"
ZEnum(x, options) == x.t = "string" /\ x.v \in options
ZOptional(x, ok) == x.t = "undefined" \/ ok

StatusEnum == {"published", "unpublished", "archived", "deprecated"}
VisibilityEnum == {"public", "private", "internal"}
createAgentSchemaKeys ==
    {"homepage", "identifier", "isFeatured", "name", "status", "tokenUsage",
     "visibility"}
createAgentSchemaNameOptional(raw) ==
    /\ raw.given
    /\ ZOptional(raw.homepage, ZString(raw.homepage))
    /\ ZString(raw.identifier)
    /\ ZOptional(raw.isFeatured, ZBoolean(raw.isFeatured))
    /\ ZOptional(raw.name, ZString(raw.name))
    /\ ZOptional(raw.status, ZEnum(raw.status, StatusEnum))
    /\ ZOptional(raw.tokenUsage, ZNumber(raw.tokenUsage))
    /\ ZOptional(raw.visibility, ZEnum(raw.visibility, VisibilityEnum))
createAgentSchema(raw) ==
    /\ raw.given
    /\ ZOptional(raw.homepage, ZString(raw.homepage))
    /\ ZString(raw.identifier)
    /\ ZOptional(raw.isFeatured, ZBoolean(raw.isFeatured))
    /\ ZString(raw.name)
    /\ ZOptional(raw.status, ZEnum(raw.status, StatusEnum))
    /\ ZOptional(raw.tokenUsage, ZNumber(raw.tokenUsage))
    /\ ZOptional(raw.visibility, ZEnum(raw.visibility, VisibilityEnum))

\* Of the 25 keys of the version schema the model keeps the required one
\* and the two the properties read; the rest are optional pass-through fields.
createAgentVersionSchemaKeys == {"identifier", "name", "setAsCurrent"}
createAgentVersionSchema(raw) ==
    /\ raw.given
    /\ ZString(raw.identifier)
    /\ ZOptional(raw.name, ZString(raw.name))
    /\ ZOptional(raw.setAsCurrent, ZBoolean(raw.setAsCurrent))

\* z.object({ identifier: z.string() })
identifierSchemaKeys == {"identifier"}
identifierSchema(raw) == raw.given /\ ZString(raw.identifier)

paginationSchemaKeys == {"page", "pageSize"}
paginationSchema(raw) ==
    /\ raw.given
    /\ ZOptional(raw.page, ZNumber(raw.page))
    /\ ZOptional(raw.pageSize, ZNumber(raw.pageSize))

\* .input(schema): whether the procedure's schema accepts the raw input
InputAccepted(op, raw) ==
    CASE op = "createAgent" -> createAgentSchema(raw)
      [] op = "createAgentVersion" -> createAgentVersionSchema(raw)
      [] op = "getOwnAgents" -> (~raw.given) \/ paginationSchema(raw)
      [] OTHER -> identifierSchema(raw)

SchemaKeys(op) ==
    CASE op = "createAgent" -> createAgentSchemaKeys
      [] op = "createAgentVersion" -> createAgentVersionSchemaKeys
      [] op = "getOwnAgents" -> paginationSchemaKeys
      [] OTHER -> identifierSchemaKeys

\* What the resolver receives as input: zod's object parse keeps the
\* schema's keys and strips every other key.
Parse(op, raw) ==
    [k \in DOMAIN raw |->
        IF k = "given" THEN raw.given
        ELSE IF k \in SchemaKeys(op) THEN raw[k] ELSE Undefined]

\* ------------------------------------------------------------ state
VARIABLES
    slot,      \* per caller: the call it has in progress or last finished
    agents,    \* marketplace: identifier -> status ("none": no such agent)
    versions   \* marketplace: identifier -> isCurrent flag of each version, oldest first
vars == <<slot, agents, versions>>

NotSettled == [settled |-> FALSE, thrown |-> FALSE, val |-> Undefined]
Resolved(v) == [settled |-> TRUE, thrown |-> FALSE, val |-> v]
Rejected(e) == [settled |-> TRUE, thrown |-> TRUE, val |-> e]
NoOut == [ok |-> FALSE, value |-> Undefined, code |-> "", message |-> "", cause |-> Undefined]
Idle ==
    [pc |-> "idle", op |-> "", authed |-> FALSE, raw |-> NoInput, sent |-> <<>>,
     gw |-> NotSettled, out |-> NoOut]

\* ------------------------------------------------------------ router
\* return response
Returned(v) == [ok |-> TRUE, value |-> v, code |-> "", message |-> "", cause |-> Undefined]
\* throw new TRPCError({ cause, code, message }): the message given is kept
\* as it is, the empty string included (only a nullish message is replaced).
TRPCError(code, message, cause) ==
    [ok |-> FALSE, value |-> Undefined, code |-> code, message |-> message, cause |-> cause]

\* what the middleware chain and the input parser throw
Unauthorized == TRPCError("UNAUTHORIZED", "UNAUTHORIZED", Undefined)
BadRequest == TRPCError("BAD_REQUEST", "Input validation failed", Undefined)

\* the ctx.marketSDK.agents method each procedure awaits
GatewayMethodVersionAsCreate(op) ==
    CASE op = "createAgent" -> "createAgent"
      [] op = "createAgentVersion" -> "createAgent"
      [] op = "deprecateAgent" -> "deprecate"
      [] op = "getAgentDetail" -> "getAgentDetail"
      [] op = "getOwnAgents" -> "getOwnAgents"
      [] op = "publishAgent" -> "publish"
      [] op = "unpublishAgent" -> "unpublish"
GatewayMethod(op) ==
    CASE op = "createAgent" -> "createAgent"
      [] op = "createAgentVersion" -> "createAgentVersion"
      [] op = "deprecateAgent" -> "deprecate"
      [] op = "getAgentDetail" -> "getAgentDetail"
      [] op = "getOwnAgents" -> "getOwnAgents"
      [] op = "publishAgent" -> "publish"
      [] op = "unpublishAgent" -> "unpublish"

\* the argument of that call, from the parsed input
GatewayArgDropsSetAsCurrent(op, input) ==
    CASE op = "createAgent" -> input
      [] op = "createAgentVersion" -> [input EXCEPT !.setAsCurrent = Undefined]
      [] op = "getOwnAgents" -> [page |-> input.page, pageSize |-> input.pageSize]
      [] OTHER -> input.identifier
GatewayArg(op, input) ==
    CASE op = "createAgent" \/ op = "createAgentVersion" -> input
      [] op = "getOwnAgents" -> [page |-> input.page, pageSize |-> input.pageSize]
      [] OTHER -> input.identifier

Request(op, input) == [method |-> GatewayMethod(op), arg |-> GatewayArg(op, input)]

\* response ?? { success: true }
CoerceFalsy(response) ==
    IF response.t \in Nullish \/ response \in Falsy
    THEN SuccessTrue ELSE response
CoerceNever(response) == response
Coerce(response) ==
    IF response.t \in Nullish THEN SuccessTrue ELSE response

\* the try block's return statement
Return(op, response) ==
    IF op \in Transitions THEN Coerce(response) ELSE response

\* the catch block's fallback message
Fallback(op) ==
    CASE op = "createAgent" -> "Failed to create agent"
      [] op = "createAgentVersion" -> "Failed to create agent version"
      [] op = "deprecateAgent" -> "Failed to deprecate agent"
      [] op = "getAgentDetail" -> "Failed to get agent detail"
      [] op = "getOwnAgents" -> "Failed to get own agents"
      [] op = "publishAgent" -> "Failed to publish agent"
      [] op = "unpublishAgent" -> "Failed to unpublish agent"

\* error instanceof Error ? error.message : '<fallback>'
Message(op, error) == IF InstanceOfError(error) THEN error.v ELSE Fallback(op)

\* the catch block: the call ends with a TRPCError
SuccessFalse == Returned(Obj("{success:false}"))
CatchMasks(s, error) ==
    [s EXCEPT !.pc = "done", !.gw = Rejected(error), !.out = SuccessFalse]
CatchRetries(s, error) ==
    IF Len(s.sent) < 2
    THEN [s EXCEPT !.sent = Append(s.sent, s.sent[1])]
    ELSE [s EXCEPT !.pc = "done", !.gw = Rejected(error),
                   !.out = TRPCError("INTERNAL_SERVER_ERROR", Message(s.op, error), error)]
Catch(s, error) ==
    [s EXCEPT !.pc = "done", !.gw = Rejected(error),
              !.out = TRPCError("INTERNAL_SERVER_ERROR", Message(s.op, error), error)]

\* the handler after its await: the settled call is returned or caught
Continue(s, settled) ==
    IF settled.thrown
    THEN Catch(s, settled.val)
    ELSE [s EXCEPT !.pc = "done", !.gw = settled,
                   !.out = Returned(Return(s.op, settled.val))]

\* authedProcedure: a call with no resolved identity is rejected
authedProcedure(authed) == authed
\* authedProcedure.use(serverDatabase).use(marketUserInfo).use(marketSDK)
agentProcedure(authed) == authedProcedure(authed)

\* A procedure up to its await: the middleware chain, then the input
\* parser, then the resolver's gateway call.
ProcedureSkipsInput(op, raw, authed) ==
    IF ~agentProcedure(authed)
    THEN [Idle EXCEPT !.pc = "done", !.op = op, !.authed = authed, !.raw = raw,
                      !.out = Unauthorized]
    ELSE [Idle EXCEPT !.pc = "awaiting", !.op = op, !.authed = authed, !.raw = raw,
                      !.sent = <<Request(op, Parse(op, raw))>>]
Procedure(op, raw, authed) ==
    IF ~agentProcedure(authed)
    THEN [Idle EXCEPT !.pc = "done", !.op = op, !.authed = authed, !.raw = raw,
                      !.out = Unauthorized]
    ELSE IF ~InputAccepted(op, raw)
    THEN [Idle EXCEPT !.pc = "done", !.op = op, !.authed = authed, !.raw = raw,
                      !.out = BadRequest]
    ELSE [Idle EXCEPT !.pc = "awaiting", !.op = op, !.authed = authed, !.raw = raw,
                      !.sent = <<Request(op, Parse(op, raw))>>]

\* A caller starts a call once its previous one has finished.
Call(c, op, raw, authed) ==
    /\ slot[c].pc # "awaiting"
    /\ slot' = [slot EXCEPT ![c] = Procedure(op, raw, authed)]
    /\ UNCHANGED <<agents, versions>>

\* ------------------------------------------------------------ marketplace
\* The catalog behind ctx.marketSDK.agents, following the lifecycle contract.
\* An outcome is the catalog after the call and how the call settled.
Outcome(ag, vs, settled) == [agents |-> ag, versions |-> vs, settled |-> settled]
Exists(ag, id) == id \in Ids /\ ag[id] # "none"
NotFound == Err("NotFound", "Agent not found")
Conflict == Err("Conflict", "Agent is deprecated")
Duplicate == Err("Conflict", "Agent already exists")
Invalid == Err("ValidationError", "Invalid agent")

\* how the marketplace's calls settle
NotFoundRejected == Rejected(NotFound)
ConflictRejected == Rejected(Conflict)
DuplicateRejected == Rejected(Duplicate)
InvalidRejected == Rejected(Invalid)
AgentResolved == Resolved(Obj("Agent"))
AgentVersionResolved == Resolved(Obj("AgentVersion"))
PageResolved == Resolved(Obj("Page"))
\* a transition's confirmation: the body may be empty
Confirmations == {Resolved(Undefined), Resolved(SuccessTrue)}
Confirmed(ag, vs) == {Outcome(ag, vs, r) : r \in Confirmations}

MarketCreateAgent(arg, ag, vs) ==
    LET id == arg.identifier.v IN
    IF id \notin Ids THEN {Outcome(ag, vs, InvalidRejected)}
    ELSE IF Exists(ag, id) THEN {Outcome(ag, vs, DuplicateRejected)}
    ELSE {Outcome([ag EXCEPT ![id] = IF arg.status.t = "string" THEN arg.status.v
                                      ELSE "unpublished"],
                  vs, AgentResolved)}

\* setAsCurrent demotes the previous current version in the same step
Demoted(flags) == [i \in DOMAIN flags |-> FALSE]
MarketCreateAgentVersion(arg, ag, vs) ==
    LET id == arg.identifier.v IN
    IF ~Exists(ag, id) THEN {Outcome(ag, vs, NotFoundRejected)}
    ELSE IF arg.setAsCurrent = True
    THEN {Outcome(ag, [vs EXCEPT ![id] = Append(Demoted(vs[id]), TRUE)],
                  AgentVersionResolved)}
    ELSE {Outcome(ag, [vs EXCEPT ![id] = Append(vs[id], FALSE)],
                  AgentVersionResolved)}

MarketDeprecate(arg, ag, vs) ==
    IF ~Exists(ag, arg.v) THEN {Outcome(ag, vs, NotFoundRejected)}
    ELSE Confirmed([ag EXCEPT ![arg.v] = "deprecated"], vs)

MarketPublishAnyStatus(arg, ag, vs) ==
    IF ~Exists(ag, arg.v) THEN {Outcome(ag, vs, NotFoundRejected)}
    ELSE Confirmed([ag EXCEPT ![arg.v] = "published"], vs)
MarketPublish(arg, ag, vs) ==
    IF ~Exists(ag, arg.v) THEN {Outcome(ag, vs, NotFoundRejected)}
    ELSE IF ag[arg.v] = "deprecated" THEN {Outcome(ag, vs, ConflictRejected)}
    ELSE Confirmed([ag EXCEPT ![arg.v] = "published"], vs)

MarketUnpublish(arg, ag, vs) ==
    IF ~Exists(ag, arg.v) THEN {Outcome(ag, vs, NotFoundRejected)}
    ELSE IF ag[arg.v] = "deprecated" THEN {Outcome(ag, vs, ConflictRejected)}
    ELSE Confirmed([ag EXCEPT ![arg.v] = "unpublished"], vs)

MarketGetAgentDetail(arg, ag, vs) ==
    IF ~Exists(ag, arg.v) THEN {Outcome(ag, vs, NotFoundRejected)}
    ELSE {Outcome(ag, vs, AgentResolved)}

MarketGetOwnAgents(arg, ag, vs) == {Outcome(ag, vs, PageResolved)}

Marketplace(req, ag, vs) ==
    CASE req.method = "createAgent" -> MarketCreateAgent(req.arg, ag, vs)
      [] req.method = "createAgentVersion" -> MarketCreateAgentVersion(req.arg, ag, vs)
      [] req.method = "deprecate" -> MarketDeprecate(req.arg, ag, vs)
      [] req.method = "publish" -> MarketPublish(req.arg, ag, vs)
      [] req.method = "unpublish" -> MarketUnpublish(req.arg, ag, vs)
      [] req.method = "getAgentDetail" -> MarketGetAgentDetail(req.arg, ag, vs)
      [] req.method = "getOwnAgents" -> MarketGetOwnAgents(req.arg, ag, vs)

\* The marketplace serves a pending call in one step and the handler resumes.
MarketplaceSettles(c) ==
    /\ slot[c].pc = "awaiting"
    /\ \E o \in Marketplace(slot[c].sent[Len(slot[c].sent)], agents, versions) :
          /\ agents' = o.agents
          /\ versions' = o.versions
          /\ slot' = [slot EXCEPT ![c] = Continue(slot[c], o.settled)]

\* An opaque marketplace: the awaited call resolves to any value or rejects
\* with any value.
Resolutions ==
    {Undefined, Null, Bool("false"), Num("0"), Str(""), SuccessTrue,
     Obj("{success:false}"), Obj("Agent")}
Rejections ==
    {Err("Error", "connect ECONNREFUSED"), Err("Error", ""), Conflict, NotFound,
     Str("timeout"), Undefined, Obj("{message:denied}")}
Settlements == {Resolved(v) : v \in Resolutions} \cup {Rejected(e) : e \in Rejections}
OpaqueSettles(c) ==
    /\ slot[c].pc = "awaiting"
    /\ \E settled \in Settlements :
          slot' = [slot EXCEPT ![c] = Continue(slot[c], settled)]
    /\ UNCHANGED <<agents, versions>>

\* ------------------------------------------------------------ calls
\* A call is <<raw input, whether the caller has a session>>.
WithId(id) == [EmptyObject EXCEPT !.identifier = Str(id)]

\* The calls of the concurrent runs: the five mutations, well-formed.
RaceCalls(op) ==
    CASE op = "createAgent" -> {<<[WithId(id) EXCEPT !.name = Str("Test")], TRUE>> : id \in Ids}
      [] op = "createAgentVersion" ->
            {<<[WithId(id) EXCEPT !.setAsCurrent = cur], TRUE>> :
                id \in Ids, cur \in {Undefined, Bool("true")}}
      [] OTHER -> {<<WithId(id), TRUE>> : id \in Ids}

\* The calls of the serial runs: well-formed inputs over Ids, and per
\* procedure one malformed input and one call without a session.
SerialCalls(op) ==
    (CASE op = "createAgent" ->
            {<<[WithId(id) EXCEPT !.name = Str("Test"), !.status = st], TRUE>> :
                id \in Ids, st \in {Undefined, Str("archived"), Str("deprecated")}}
      [] op = "createAgentVersion" ->
            {<<[WithId(id) EXCEPT !.setAsCurrent = cur], TRUE>> :
                id \in Ids, cur \in {Undefined, Bool("true"), Bool("false")}}
      [] op = "getOwnAgents" -> {<<NoInput, TRUE>>}
      [] OTHER -> {<<WithId(id), TRUE>> : id \in Ids})
    \cup {<<EmptyObject, TRUE>>, <<[EmptyObject EXCEPT !.page = Str("1")], TRUE>>,
          <<WithId("a1"), FALSE>>}

\* The calls of the dispatch runs: every shape of input.
Shapes == {Undefined, Null, Str(""), Str("a1"), Num("1")}
DispatchInputs(op) ==
    CASE op = "createAgent" ->
            {[EmptyObject EXCEPT !.identifier = i, !.name = n] : i \in Shapes, n \in Shapes}
            \cup {[WithId("a1") EXCEPT !.name = Str("Test"), !.status = st] :
                    st \in {Str("published"), Str("retired"), Bool("true")}}
            \cup {[WithId("a1") EXCEPT !.name = Str("Test"), !.visibility = Str("public"),
                                       !.tokenUsage = Num("1"), !.isFeatured = Bool("true"),
                                       !.homepage = Str("https://a1"), !.page = Num("1")],
                  [WithId("a1") EXCEPT !.name = Str("Test"), !.tokenUsage = Str("many")],
                  NoInput}
      [] op = "createAgentVersion" ->
            {[EmptyObject EXCEPT !.identifier = i, !.setAsCurrent = cur] :
                i \in Shapes, cur \in {Undefined, Bool("true"), Bool("false"), Str("yes")}}
            \cup {NoInput}
      [] op = "getOwnAgents" ->
            {[EmptyObject EXCEPT !.page = p, !.pageSize = z] :
                p \in {Undefined, Num("1"), Str("1")}, z \in {Undefined, Num("10")}}
            \cup {NoInput}
      [] OTHER ->
            {[EmptyObject EXCEPT !.identifier = i] : i \in Shapes}
            \cup {NoInput, [WithId("a1") EXCEPT !.name = Str("stray")]}
DispatchCalls(op) == DispatchInputs(op) \X BOOLEAN

\* versions created so far plus the createAgentVersion calls under way
RECURSIVE SumLen(_, _)
SumLen(f, S) ==
    IF S = {} THEN 0
    ELSE LET x == CHOOSE y \in S : TRUE IN Len(f[x]) + SumLen(f, S \ {x})
VersionsUnderWay ==
    SumLen(versions, Ids)
        + Cardinality({c \in Callers : slot[c].pc = "awaiting" /\ slot[c].op = "createAgentVersion"})

\* ------------------------------------------------------------ procedures
createAgent(c, calls) == \E k \in calls : Call(c, "createAgent", k[1], k[2])
createAgentVersion(c, calls) ==
    /\ VersionsUnderWay < MaxVersions
    /\ \E k \in calls : Call(c, "createAgentVersion", k[1], k[2])
deprecateAgent(c, calls) == \E k \in calls : Call(c, "deprecateAgent", k[1], k[2])
getAgentDetail(c, calls) == \E k \in calls : Call(c, "getAgentDetail", k[1], k[2])
getOwnAgents(c, calls) == \E k \in calls : Call(c, "getOwnAgents", k[1], k[2])
publishAgent(c, calls) == \E k \in calls : Call(c, "publishAgent", k[1], k[2])
unpublishAgent(c, calls) == \E k \in calls : Call(c, "unpublishAgent", k[1], k[2])

Init ==
    /\ slot = [c \in Callers |-> Idle]
    /\ agents = [id \in Ids |-> "none"]
    /\ versions = [id \in Ids |-> <<>>]

\* the call sets of the concurrent runs, per procedure
RaceCallsCreateAgent == RaceCalls("createAgent")
RaceCallsCreateAgentVersion == RaceCalls("createAgentVersion")
RaceCallsDeprecateAgent == RaceCalls("deprecateAgent")
RaceCallsPublishAgent == RaceCalls("publishAgent")
RaceCallsUnpublishAgent == RaceCalls("unpublishAgent")

\* Concurrent runs: two callers, the marketplace following its contract.
Next ==
    \E c \in Callers :
        \/ createAgent(c, RaceCallsCreateAgent)
        \/ createAgentVersion(c, RaceCallsCreateAgentVersion)
        \/ deprecateAgent(c, RaceCallsDeprecateAgent)
        \/ publishAgent(c, RaceCallsPublishAgent)
        \/ unpublishAgent(c, RaceCallsUnpublishAgent)
        \/ MarketplaceSettles(c)

Spec == Init /\ [][Next]_vars

\* the call sets of the serial runs, per procedure
SerialCallsCreateAgent == SerialCalls("createAgent")
SerialCallsCreateAgentVersion == SerialCalls("createAgentVersion")
SerialCallsDeprecateAgent == SerialCalls("deprecateAgent")
SerialCallsGetAgentDetail == SerialCalls("getAgentDetail")
SerialCallsGetOwnAgents == SerialCalls("getOwnAgents")
SerialCallsPublishAgent == SerialCalls("publishAgent")
SerialCallsUnpublishAgent == SerialCalls("unpublishAgent")

\* Serial runs: one caller, every procedure, the marketplace following its
\* contract.
NextSerial ==
    \/ createAgent("A", SerialCallsCreateAgent)
    \/ createAgentVersion("A", SerialCallsCreateAgentVersion)
    \/ deprecateAgent("A", SerialCallsDeprecateAgent)
    \/ getAgentDetail("A", SerialCallsGetAgentDetail)
    \/ getOwnAgents("A", SerialCallsGetOwnAgents)
    \/ publishAgent("A", SerialCallsPublishAgent)
    \/ unpublishAgent("A", SerialCallsUnpublishAgent)
    \/ MarketplaceSettles("A")

SpecSerial == Init /\ [][NextSerial]_vars

\* the call sets of the dispatch runs, per procedure
DispatchCallsCreateAgent == DispatchCalls("createAgent")
DispatchCallsCreateAgentVersion == DispatchCalls("createAgentVersion")
DispatchCallsDeprecateAgent == DispatchCalls("deprecateAgent")
DispatchCallsGetAgentDetail == DispatchCalls("getAgentDetail")
DispatchCallsGetOwnAgents == DispatchCalls("getOwnAgents")
DispatchCallsPublishAgent == DispatchCalls("publishAgent")
DispatchCallsUnpublishAgent == DispatchCalls("unpublishAgent")

\* Dispatch runs: one caller, every procedure and every shape of input, the
\* marketplace opaque.
NextDispatch ==
    \/ createAgent("A", DispatchCallsCreateAgent)
    \/ createAgentVersion("A", DispatchCallsCreateAgentVersion)
    \/ deprecateAgent("A", DispatchCallsDeprecateAgent)
    \/ getAgentDetail("A", DispatchCallsGetAgentDetail)
    \/ getOwnAgents("A", DispatchCallsGetOwnAgents)
    \/ publishAgent("A", DispatchCallsPublishAgent)
    \/ unpublishAgent("A", DispatchCallsUnpublishAgent)
    \/ OpaqueSettles("A")

SpecDispatch == Init /\ [][NextDispatch]_vars

\* ------------------------------------------------------------ properties
\* the step in which caller c's awaited call settles and its handler ends
Settles(c) == slot[c].pc = "awaiting" /\ slot'[c].pc = "done"
\* the step in which caller c's call is rejected before its resolver runs
RejectedLocally(c) == slot[c].pc # "awaiting" /\ slot'[c] # slot[c] /\ slot'[c].pc = "done"
\* the identifier a call names
Target(c) == slot[c].raw.identifier.v
\* caller c's call of op for the agent id has ended
IsDone(c, op, id) ==
    /\ slot[c].pc = "done" /\ slot[c].op = op
    /\ slot[c].raw.identifier.t = "string" /\ slot[c].raw.identifier.v = id
IsString(x) == x.t = "string"
IsAbsent(x) == x.t = "undefined" \/ x.t = "null"
IsTransition(op) == op = "publishAgent" \/ op = "unpublishAgent" \/ op = "deprecateAgent"
CurrentVersions(id) == {i \in DOMAIN versions[id] : versions[id][i]}
SuccessReturned == Returned(SuccessTrue)

\* C1: once an agent's status is deprecated, no step of any run (calls of
\* both callers interleaved at their awaits) moves it out of deprecated.
C1_DeprecatedIsTerminal ==
    [][\A id \in Ids : agents[id] = "deprecated" => agents'[id] = "deprecated"]_vars

\* A publish that raced a deprecate of the same agent and lost: the agent
\* is deprecated, the deprecate succeeded, the publish was refused.
C1_Witness ==
    /\ agents["a1"] = "deprecated"
    /\ IsDone("A", "publishAgent", "a1") /\ slot["A"].gw = ConflictRejected
    /\ IsDone("B", "deprecateAgent", "a1") /\ slot["B"].out.ok

\* C2 as stated: a publish or unpublish that settles while the agent is
\* deprecated fails, the caller receives a Conflict-kind error, and the
\* status stays deprecated.
C2_ConflictKind ==
    [][\A c \in Callers :
          (/\ Settles(c)
           /\ (slot[c].op = "publishAgent" \/ slot[c].op = "unpublishAgent")
           /\ Target(c) \in Ids /\ agents[Target(c)] = "deprecated")
          => /\ ~slot'[c].out.ok
             /\ slot'[c].out.code = "CONFLICT"
             /\ agents'[Target(c)] = "deprecated"]_vars

\* C2 amended: such a call fails with a TRPCError of kind
\* INTERNAL_SERVER_ERROR whose message and cause are the marketplace's
\* Conflict error, never a success value; the status stays deprecated.
C2_RejectedAfterDeprecation ==
    [][\A c \in Callers :
          (/\ Settles(c)
           /\ (slot[c].op = "publishAgent" \/ slot[c].op = "unpublishAgent")
           /\ Target(c) \in Ids /\ agents[Target(c)] = "deprecated")
          => /\ ~slot'[c].out.ok
             /\ slot'[c].out.code = "INTERNAL_SERVER_ERROR"
             /\ slot'[c].out.cause.name = "Conflict"
             /\ slot'[c].out.message = slot'[c].out.cause.v
             /\ agents'[Target(c)] = "deprecated"]_vars

\* A deprecate of a2 has succeeded and an unpublish of a2 was refused.
C2_Witness ==
    /\ agents["a2"] = "deprecated"
    /\ IsDone("B", "deprecateAgent", "a2") /\ slot["B"].out.ok
    /\ IsDone("A", "unpublishAgent", "a2")
    /\ ~slot["A"].out.ok /\ slot["A"].out.cause = Conflict

\* C3: when the awaited call resolves, the caller receives the resolved
\* value itself; only the three transitions replace it, by {success: true},
\* and only when it is absent (undefined or null).
C3_PassThrough ==
    \A c \in Callers :
        (slot[c].pc = "done" /\ slot[c].gw.settled /\ ~slot[c].gw.thrown)
        => /\ slot[c].out.ok
           /\ slot[c].out.value =
                 IF IsTransition(slot[c].op) /\ IsAbsent(slot[c].gw.val)
                 THEN SuccessTrue
                 ELSE slot[c].gw.val

\* A transition whose call resolved to the falsy value false returned it,
\* and was not given {success: true} instead.
C3_Witness ==
    \E c \in Callers :
        /\ slot[c].pc = "done" /\ IsTransition(slot[c].op)
        /\ slot[c].gw.settled /\ ~slot[c].gw.thrown
        /\ slot[c].gw.val.t = "boolean" /\ slot[c].gw.val.v = "false"
        /\ slot[c].out.ok /\ slot[c].out.value.t = "boolean"

\* C4 as stated: every failed call gives the caller an error with a kind
\* and a non-empty message: the thrown Error's message when it has one,
\* else the procedure's fallback message; a rejected call never succeeds.
C4_NonEmptyMessage ==
    \A c \in Callers :
        slot[c].pc = "done"
        => /\ slot[c].gw.thrown => ~slot[c].out.ok
           /\ ~slot[c].out.ok => (slot[c].out.code # "" /\ slot[c].out.message # "")
           /\ slot[c].gw.thrown =>
                 slot[c].out.message =
                     IF slot[c].gw.val.t = "Error" /\ slot[c].gw.val.v # ""
                     THEN slot[c].gw.val.v
                     ELSE Fallback(slot[c].op)

\* C5: a call without a session, or whose input its schema refuses, ends
\* with a local error and no gateway call, and the step that rejects it
\* leaves the marketplace as it was.
C5_GateBeforeGateway ==
    /\ [](\A c \in Callers :
            (slot[c].pc # "idle" /\ (~slot[c].authed \/ ~InputAccepted(slot[c].op, slot[c].raw)))
            => /\ slot[c].pc = "done"
               /\ slot[c].sent = <<>>
               /\ ~slot[c].gw.settled
               /\ ~slot[c].out.ok
               /\ (slot[c].out.code = "UNAUTHORIZED" \/ slot[c].out.code = "BAD_REQUEST"))
    /\ [][\A c \in Callers :
            RejectedLocally(c) => (agents' = agents /\ versions' = versions)]_vars

\* A publish without an identifier was refused while the marketplace holds
\* an agent with a current version.
C5_Witness ==
    /\ slot["A"].pc = "done" /\ slot["A"].op = "publishAgent"
    /\ slot["A"].authed /\ slot["A"].raw.identifier.t = "undefined"
    /\ slot["A"].out.code = "BAD_REQUEST" /\ slot["A"].sent = <<>>
    /\ agents["a1"] = "published" /\ versions["a1"] = <<TRUE>>

\* C6 as stated: createAgent reaches the gateway only with a non-empty
\* string identifier and a non-empty string name.
C6_NonEmptyRequired ==
    \A c \in Callers :
        (slot[c].op = "createAgent" /\ slot[c].sent # <<>>)
        => /\ IsString(slot[c].raw.identifier) /\ slot[c].raw.identifier.v # ""
           /\ IsString(slot[c].raw.name) /\ slot[c].raw.name.v # ""

\* C6 amended: createAgent reaches the gateway only with a string
\* identifier and a string name (the empty string included); an
\* authenticated call without them ends BAD_REQUEST with no gateway call;
\* a call with both and no optional field is accepted.
C6_StringsRequired ==
    \A c \in Callers :
        slot[c].op = "createAgent"
        => /\ slot[c].sent # <<>>
                => (IsString(slot[c].raw.identifier) /\ IsString(slot[c].raw.name))
           /\ (slot[c].authed /\ ~(IsString(slot[c].raw.identifier) /\ IsString(slot[c].raw.name)))
                => (slot[c].pc = "done" /\ slot[c].sent = <<>>
                    /\ slot[c].out.code = "BAD_REQUEST")
           /\ (/\ slot[c].authed /\ slot[c].raw.given
               /\ IsString(slot[c].raw.identifier) /\ IsString(slot[c].raw.name)
               /\ slot[c].raw.homepage.t = "undefined"
               /\ slot[c].raw.isFeatured.t = "undefined"
               /\ slot[c].raw.status.t = "undefined"
               /\ slot[c].raw.tokenUsage.t = "undefined"
               /\ slot[c].raw.visibility.t = "undefined")
                => slot[c].sent # <<>>

\* createAgent with the empty string as identifier and as name, and no
\* optional field, was sent to the gateway.
C6_Witness ==
    \E c \in Callers :
        /\ slot[c].op = "createAgent" /\ slot[c].pc = "done"
        /\ IsString(slot[c].raw.identifier) /\ slot[c].raw.identifier.v = ""
        /\ IsString(slot[c].raw.name) /\ slot[c].raw.name.v = ""
        /\ slot[c].raw.status.t = "undefined"
        /\ Len(slot[c].sent) = 1 /\ slot[c].sent[1].arg.identifier.v = ""

\* C7: no agent ever has two current versions; a createAgentVersion with
\* setAsCurrent true that succeeds adds one version, which is then the only
\* current one; an agent that has a current version keeps having one.
C7_OneCurrentVersion ==
    /\ [](\A id \in Ids : Cardinality(CurrentVersions(id)) <= 1)
    /\ [][/\ \A c \in Callers :
                (/\ Settles(c) /\ slot[c].op = "createAgentVersion"
                 /\ slot[c].raw.setAsCurrent.t = "boolean"
                 /\ slot[c].raw.setAsCurrent.v = "true"
                 /\ slot'[c].out.ok)
                => /\ Len(versions'[Target(c)]) = Len(versions[Target(c)]) + 1
                   /\ {i \in DOMAIN versions'[Target(c)] : versions'[Target(c)][i]}
                         = {Len(versions'[Target(c)])}
          /\ \A id \in Ids :
                CurrentVersions(id) # {}
                => {i \in DOMAIN versions'[id] : versions'[id][i]} # {}]_vars

\* Both callers created a version of a1 with setAsCurrent true: the second
\* version is current and the first was demoted.
C7_Witness ==
    /\ versions["a1"] = <<FALSE, TRUE>>
    /\ \A c \in Callers :
          /\ IsDone(c, "createAgentVersion", "a1") /\ slot[c].out.ok
          /\ slot[c].raw.setAsCurrent.v = "true"

\* C8 as stated: createAgentVersion for an identifier with no agent fails
\* with a NotFound-kind error and changes nothing in the marketplace.
C8_NotFoundKind ==
    [][\A c \in Callers :
          (/\ Settles(c) /\ slot[c].op = "createAgentVersion"
           /\ Target(c) \in Ids /\ agents[Target(c)] = "none")
          => /\ ~slot'[c].out.ok
             /\ slot'[c].out.code = "NOT_FOUND"
             /\ agents' = agents /\ versions' = versions]_vars

\* C8 amended: it fails with a TRPCError of kind INTERNAL_SERVER_ERROR
\* whose message and cause are the marketplace's NotFound error, and
\* changes nothing: no version, no agent, no current pointer moved.
C8_NoVersionWithoutAgent ==
    [][\A c \in Callers :
          (/\ Settles(c) /\ slot[c].op = "createAgentVersion"
           /\ Target(c) \in Ids /\ agents[Target(c)] = "none")
          => /\ ~slot'[c].out.ok
             /\ slot'[c].out.code = "INTERNAL_SERVER_ERROR"
             /\ slot'[c].out.cause.name = "NotFound"
             /\ slot'[c].out.message = slot'[c].out.cause.v
             /\ agents' = agents /\ versions' = versions]_vars

\* A version for the missing a1, asked to be current, was refused while a2
\* exists with a current version.
C8_Witness ==
    /\ IsDone("A", "createAgentVersion", "a1")
    /\ slot["A"].raw.setAsCurrent.v = "true"
    /\ slot["A"].out.cause = NotFound
    /\ agents["a1"] = "none" /\ versions["a1"] = <<>>
    /\ agents["a2"] # "none" /\ versions["a2"] = <<TRUE>>

\* C9: a deprecateAgent that settles on an existing agent, whatever its
\* status (deprecated included), returns {success: true} and leaves the
\* status deprecated.
C9_DeprecateIdempotent ==
    [][\A c \in Callers :
          (/\ Settles(c) /\ slot[c].op = "deprecateAgent"
           /\ Target(c) \in Ids /\ agents[Target(c)] # "none")
          => /\ slot'[c].out = SuccessReturned
             /\ agents'[Target(c)] = "deprecated"]_vars

\* Two deprecate calls of a1 have both returned {success: true}, one with
\* an empty confirmation body and one with a body.
C9_Witness ==
    /\ agents["a1"] = "deprecated"
    /\ \A c \in Callers :
          IsDone(c, "deprecateAgent", "a1") /\ slot[c].out = SuccessReturned
    /\ slot["A"].gw.val.t = "undefined"
    /\ slot["B"].gw.val.t = "object"

\* C10: a call that passed the session check and its schema has made
\* exactly one gateway call, to the method of its procedure, with the
\* schema's keys of the input (or the identifier, or page and pageSize) as
\* the caller gave them, also after the call failed.
C10_OneGatewayCall ==
    \A c \in Callers :
        (slot[c].pc # "idle" /\ slot[c].authed /\ InputAccepted(slot[c].op, slot[c].raw))
        => /\ Len(slot[c].sent) = 1
           /\ slot[c].sent[1].method =
                 (CASE slot[c].op = "createAgent" -> "createAgent"
                    [] slot[c].op = "createAgentVersion" -> "createAgentVersion"
                    [] slot[c].op = "deprecateAgent" -> "deprecate"
                    [] slot[c].op = "publishAgent" -> "publish"
                    [] slot[c].op = "unpublishAgent" -> "unpublish"
                    [] slot[c].op = "getAgentDetail" -> "getAgentDetail"
                    [] slot[c].op = "getOwnAgents" -> "getOwnAgents")
           /\ slot[c].sent[1].arg =
                 (CASE slot[c].op = "createAgent" \/ slot[c].op = "createAgentVersion" ->
                          [k \in DOMAIN slot[c].raw |->
                              IF k = "given" \/ k \in SchemaKeys(slot[c].op)
                              THEN slot[c].raw[k] ELSE Undefined]
                    [] slot[c].op = "getOwnAgents" ->
                          [page |-> slot[c].raw.page, pageSize |-> slot[c].raw.pageSize]
                    [] OTHER -> slot[c].raw.identifier)

\* A call whose gateway call was rejected ended with that one call.
C10_Witness ==
    \E c \in Callers :
        /\ slot[c].pc = "done" /\ slot[c].op = "unpublishAgent"
        /\ slot[c].gw.thrown /\ ~slot[c].out.ok
        /\ Len(slot[c].sent) = 1 /\ slot[c].sent[1].method = "unpublish"
====
